---- MODULE Spec2Model ----
(***************************************************************************)
(* Quine-McCluskey minimisation of a truth table (src/src/table.rs):       *)
(* Implicant::from_table_idx, Implicant::try_merge, Table::minterms,       *)
(* Table::is_minterm, Table::prime_implicants and Table::minimize.         *)
(*                                                                         *)
(* A table is a function from the indices 0 .. 2^N - 1 to Output.  An      *)
(* implicant is a record [values, constituents]; values is indexed by the  *)
(* variable number 0 .. N-1 as in the source.  Vec<T> is a sequence (so a  *)
(* source index i is position i + 1), Option<T> is a set with at most one  *)
(* element, HashSet<Implicant> is a set of records in which no two         *)
(* elements have the same values (Implicant::eq / Implicant::hash).        *)
(***************************************************************************)
EXTENDS Integers, Sequences, FiniteSets

\* Width of the tables explored (the const generic N of Table<N>).
N == 3

\* A HashSet of at most MaxShuffle elements is iterated in every order;
\* a larger one in the orders of LargeSetOrders.
MaxShuffle == 3

\* The inputs of the try_merge specification carry constituents drawn
\* from 0 .. MaxConstituent.
MaxConstituent == 1

\* is_minterm is queried with the indices 0 .. ENTRIES - 1 + OutOfRange.
OutOfRange == 1

VARIABLES
    outputs,            \* Table::outputs
    pc,                 \* position in minimize / prime_implicants
    implicants,         \* prime_implicants: the current generation (Vec)
    merged,             \* prime_implicants: the merged flags (Vec<bool>)
    next_implicants,    \* prime_implicants: the next generation (HashSet)
    first_idx,          \* prime_implicants: the outer loop index
    prime_implicants,   \* prime_implicants: the result vector
    generation,         \* number of completed passes of the loop
    result,             \* the list minimize returns
    self,               \* try_merge: first argument
    other,              \* try_merge: second argument
    merge,              \* try_merge: the Option returned
    query               \* the last is_minterm call and its outcome

vars == <<outputs, pc, implicants, merged, next_implicants, first_idx,
          prime_implicants, generation, result, self, other, merge, query>>

Output == {"Zero", "One", "DontCare"}

ENTRIES == 2 ^ N

Indices == 0 .. (ENTRIES - 1)

Variables == 0 .. (N - 1)

Tables == [Indices -> Output]

-----------------------------------------------------------------------------
(* Implicant *)

\* Implicant::eq and Implicant::hash look at the values only.
eq(x, y) == x.values = y.values

from_table_idx(idx, is_minterm_flag) ==
    [values |-> [var \in Variables |->
                    IF (idx \div (2 ^ var)) % 2 = 1 THEN "One" ELSE "Zero"],
     constituents |-> IF is_minterm_flag THEN {idx} ELSE {}]

\* diff_scan with the second arm taking any unequal pair: a difference
\* that involves DontCare is accepted.
RECURSIVE diff_scan_any_pair(_, _, _, _)
diff_scan_any_pair(x, y, idx, diff_idx) ==
    IF idx = N THEN diff_idx
    ELSE IF x.values[idx] = y.values[idx]
         THEN diff_scan_any_pair(x, y, idx + 1, diff_idx)
    ELSE IF diff_idx = {}
         THEN diff_scan_any_pair(x, y, idx + 1, {idx})
    ELSE {}

\* diff_scan without the `if diff_idx.is_none()` guard: a second
\* difference replaces the first.
RECURSIVE diff_scan_unguarded(_, _, _, _)
diff_scan_unguarded(x, y, idx, diff_idx) ==
    IF idx = N THEN diff_idx
    ELSE IF x.values[idx] = y.values[idx]
         THEN diff_scan_unguarded(x, y, idx + 1, diff_idx)
    ELSE IF \/ (x.values[idx] = "Zero" /\ y.values[idx] = "One")
            \/ (x.values[idx] = "One" /\ y.values[idx] = "Zero")
         THEN diff_scan_unguarded(x, y, idx + 1, {idx})
    ELSE {}

\* The for loop of try_merge: the Option diff_idx it ends with; {} also
\* stands for the early `return None`.
RECURSIVE diff_scan(_, _, _, _)
diff_scan(x, y, idx, diff_idx) ==
    IF idx = N THEN diff_idx
    ELSE IF x.values[idx] = y.values[idx]
         THEN diff_scan(x, y, idx + 1, diff_idx)
    ELSE IF /\ \/ (x.values[idx] = "Zero" /\ y.values[idx] = "One")
               \/ (x.values[idx] = "One" /\ y.values[idx] = "Zero")
            /\ diff_idx = {}
         THEN diff_scan(x, y, idx + 1, {idx})
    ELSE {}

\* try_merge without `result.constituents.extend(other.constituents)`.
try_merge_self_constituents(x, y) ==
    { [values |-> [x.values EXCEPT ![d] = "DontCare"],
       constituents |-> x.constituents]
        : d \in diff_scan(x, y, 0, {}) }

\* try_merge answering Some(self.clone()) when no coordinate differs.
try_merge_no_difference(x, y) ==
    IF x.values = y.values
    THEN {[values |-> x.values,
           constituents |-> x.constituents \cup y.constituents]}
    ELSE { [values |-> [x.values EXCEPT ![d] = "DontCare"],
            constituents |-> x.constituents \cup y.constituents]
             : d \in diff_scan(x, y, 0, {}) }

try_merge(x, y) ==
    { [values |-> [x.values EXCEPT ![d] = "DontCare"],
       constituents |-> x.constituents \cup y.constituents]
        : d \in diff_scan(x, y, 0, {}) }

-----------------------------------------------------------------------------
(* Table *)

minterms(out) == {idx \in Indices : out[idx] = "One"}

\* self.outputs[idx] panics when idx is outside the array.
is_minterm(out, idx) ==
    IF idx \in Indices
    THEN (IF out[idx] = "One" THEN "true" ELSE "false")
    ELSE "panic"

\* seed_implicants keeping only the indices whose output is One.
seed_implicants_minterms_only(out) ==
    LET idxs == SelectSeq([i \in 1 .. ENTRIES |-> i - 1],
                          LAMBDA idx : out[idx] = "One")
    IN  [k \in 1 .. Len(idxs) |-> from_table_idx(idxs[k], TRUE)]

\* The first statement of prime_implicants: one implicant per index whose
\* output is not Zero, in ascending index order.
seed_implicants(out) ==
    LET idxs == SelectSeq([i \in 1 .. ENTRIES |-> i - 1],
                          LAMBDA idx : out[idx] # "Zero")
    IN  [k \in 1 .. Len(idxs) |->
            from_table_idx(idxs[k], out[idxs[k]] = "One")]

\* HashSet::insert: an element equal to one already present is not stored.
insert(set, m) ==
    IF \E e \in set : eq(e, m) THEN set ELSE set \cup {m}

\* inner_loop without `merged[second_idx] = true`.
RECURSIVE inner_loop_first_only(_, _, _, _, _)
inner_loop_first_only(impls, fi, second_idx, next, mrg) ==
    IF second_idx >= Len(impls)
    THEN [next_implicants |-> next, merged |-> mrg]
    ELSE LET m == try_merge(impls[fi + 1], impls[second_idx + 1])
         IN  IF m # {}
             THEN inner_loop_first_only(impls, fi, second_idx + 1,
                                        insert(next, CHOOSE r \in m : TRUE),
                                        [mrg EXCEPT ![fi + 1] = TRUE])
             ELSE inner_loop_first_only(impls, fi, second_idx + 1, next, mrg)

\* The inner for loop of prime_implicants for one first_idx (0-based), from
\* second_idx on: the next_implicants and merged it leaves.
RECURSIVE inner_loop(_, _, _, _, _)
inner_loop(impls, fi, second_idx, next, mrg) ==
    IF second_idx >= Len(impls)
    THEN [next_implicants |-> next, merged |-> mrg]
    ELSE LET m == try_merge(impls[fi + 1], impls[second_idx + 1])
         IN  IF m # {}
             THEN inner_loop(impls, fi, second_idx + 1,
                             insert(next, CHOOSE r \in m : TRUE),
                             [mrg EXCEPT ![fi + 1] = TRUE,
                                         ![second_idx + 1] = TRUE])
             ELSE inner_loop(impls, fi, second_idx + 1, next, mrg)

\* All sequences that list the elements of the set S once each.
RECURSIVE orderings(_)
orderings(S) ==
    IF S = {} THEN {<<>>}
    ELSE UNION { { <<e>> \o p : p \in orderings(S \ {e}) } : e \in S }

\* The value vector read as a base-3 number, to order large sets.
RECURSIVE values_key(_, _)
values_key(x, var) ==
    IF var = N THEN 0
    ELSE (CASE x.values[var] = "Zero" -> 0
            [] x.values[var] = "One" -> 1
            [] OTHER -> 2) + 3 * values_key(x, var + 1)

RECURSIVE ascending(_)
ascending(S) ==
    IF S = {} THEN <<>>
    ELSE LET least == CHOOSE e \in S :
                        \A f \in S : values_key(e, 0) <= values_key(f, 0)
         IN  <<least>> \o ascending(S \ {least})

reverse(s) == [i \in 1 .. Len(s) |-> s[Len(s) + 1 - i]]

LargeSetOrders(S) == {ascending(S), reverse(ascending(S))}

\* next_implicants.into_iter().collect(): the iteration order of a HashSet
\* is not specified.
into_iter_collect(S) ==
    IF Cardinality(S) <= MaxShuffle THEN orderings(S) ELSE LargeSetOrders(S)

-----------------------------------------------------------------------------
(* minimize: the set cover problem handed to the solver *)

RECURSIVE sum_over(_, _)
sum_over(x, idxs) ==
    IF idxs = {} THEN 0
    ELSE LET i == CHOOSE j \in idxs : TRUE
         IN  x[i] + sum_over(x, idxs \ {i})

\* feasible with every constraint written .geq(0).
feasible_geq_zero(universe, sets) ==
    { x \in [1 .. Len(sets) -> {0, 1}] :
        \A item \in universe :
            sum_over(x, {i \in 1 .. Len(sets) : item \in sets[i]}) >= 0 }

\* The 0/1 assignments of include_vars that satisfy every constraint:
\* one per item of the universe, the include_vars of the sets holding it
\* sum to at least 1.
feasible(universe, sets) ==
    { x \in [1 .. Len(sets) -> {0, 1}] :
        \A item \in universe :
            sum_over(x, {i \in 1 .. Len(sets) : item \in sets[i]}) >= 1 }

\* optimal without the objective: any feasible assignment is an answer.
optimal_no_objective(universe, sets) == feasible(universe, sets)

\* The solver minimises the sum of include_vars.
optimal(universe, sets) ==
    LET F == feasible(universe, sets)
        totals == { sum_over(x, 1 .. Len(sets)) : x \in F }
    IN  { x \in F : \A t \in totals : sum_over(x, 1 .. Len(sets)) <= t }

\* selected_indices with `>= 0.0` for `> 0.0`.
selected_indices_nonnegative(x) ==
    LET pos == SelectSeq([i \in 1 .. Len(x) |-> i], LAMBDA i : x[i] >= 0)
    IN  [k \in 1 .. Len(pos) |-> pos[k] - 1]

\* The indices (0-based, ascending) whose include_var is positive.
selected_indices(x) ==
    LET pos == SelectSeq([i \in 1 .. Len(x) |-> i], LAMBDA i : x[i] > 0)
    IN  [k \in 1 .. Len(pos) |-> pos[k] - 1]

\* cover(): every index list the solver may answer with; empty when
\* model.solve() is an Err.
cover(universe, sets) ==
    { selected_indices(x) : x \in optimal(universe, sets) }

\* Vec::remove(idx): the element and the vector left (idx is 0-based).
vec_remove(v, idx) ==
    [item |-> v[idx + 1],
     rest |-> [i \in 1 .. (Len(v) - 1) |-> IF i <= idx THEN v[i] ELSE v[i + 1]]]

\* idxs.iter().map(|&idx| primes.remove(idx)).collect(), from position k of
\* idxs on; ok is FALSE when a remove is out of range (a panic).
RECURSIVE remove_each(_, _, _, _)
remove_each(primes, idxs, k, acc) ==
    IF k > Len(idxs) THEN [ok |-> TRUE, list |-> acc]
    ELSE IF idxs[k] >= Len(primes) THEN [ok |-> FALSE, list |-> acc]
    ELSE LET r == vec_remove(primes, idxs[k])
         IN  remove_each(r.rest, idxs, k + 1, Append(acc, r.item))

\* cover(..).iter().rev().map(|&idx| primes.remove(idx)).collect()
take_selected(primes, idxs) == remove_each(primes, reverse(idxs), 1, <<>>)

-----------------------------------------------------------------------------
(* The state machine of minimize() *)

IdleMinimize ==
    /\ implicants = <<>>
    /\ merged = <<>>
    /\ next_implicants = {}
    /\ first_idx = 0
    /\ prime_implicants = <<>>
    /\ generation = 0
    /\ result = <<>>

IdleMerge ==
    /\ self = <<>>
    /\ other = <<>>
    /\ merge = {}

Init ==
    /\ outputs \in Tables
    /\ pc = "start"
    /\ IdleMinimize
    /\ IdleMerge
    /\ query = {}

\* minimize calls prime_implicants, which seeds generation 0.
Seed ==
    /\ pc = "start"
    /\ implicants' = seed_implicants(outputs)
    /\ prime_implicants' = <<>>
    /\ pc' = "loop"
    /\ UNCHANGED <<outputs, merged, next_implicants, first_idx, generation,
                   result, self, other, merge, query>>

\* The head of the loop body: fresh merged flags and next_implicants.
LoopHead ==
    /\ pc = "loop"
    /\ merged' = [i \in 1 .. Len(implicants) |-> FALSE]
    /\ next_implicants' = {}
    /\ first_idx' = 0
    /\ pc' = "for"
    /\ UNCHANGED <<outputs, implicants, prime_implicants, generation,
                   result, self, other, merge, query>>

\* One iteration of the outer for loop.
ForBody ==
    /\ pc = "for"
    /\ first_idx < Len(implicants)
    /\ LET after == inner_loop(implicants, first_idx, first_idx,
                               next_implicants, merged)
       IN  /\ next_implicants' = after.next_implicants
           /\ merged' = after.merged
           /\ prime_implicants' =
                IF ~after.merged[first_idx + 1]
                THEN Append(prime_implicants, implicants[first_idx + 1])
                ELSE prime_implicants
    /\ first_idx' = first_idx + 1
    /\ UNCHANGED <<outputs, pc, implicants, generation, result,
                   self, other, merge, query>>

\* if next_implicants.is_empty() { break }
Break ==
    /\ pc = "for"
    /\ first_idx = Len(implicants)
    /\ next_implicants = {}
    /\ pc' = "cover"
    /\ UNCHANGED <<outputs, implicants, merged, next_implicants, first_idx,
                   prime_implicants, generation, result, self, other, merge,
                   query>>

\* implicants = next_implicants.into_iter().collect()
Collect ==
    /\ pc = "for"
    /\ first_idx = Len(implicants)
    /\ next_implicants # {}
    /\ implicants' \in into_iter_collect(next_implicants)
    /\ generation' = generation + 1
    /\ pc' = "loop"
    /\ UNCHANGED <<outputs, merged, next_implicants, first_idx,
                   prime_implicants, result, self, other, merge, query>>

\* The rest of minimize: the cover and the implicants taken out of primes.
Cover ==
    /\ pc = "cover"
    /\ LET sets == [i \in 1 .. Len(prime_implicants) |->
                        prime_implicants[i].constituents]
           answers == cover(minterms(outputs), sets)
       IN  IF answers = {}
           THEN pc' = "panic" /\ result' = <<>>
           ELSE \E idxs \in answers :
                    LET taken == take_selected(prime_implicants, idxs)
                    IN  IF taken.ok
                        THEN pc' = "done" /\ result' = taken.list
                        ELSE pc' = "panic" /\ result' = <<>>
    /\ UNCHANGED <<outputs, implicants, merged, next_implicants, first_idx,
                   prime_implicants, generation, self, other, merge, query>>

Next == Seed \/ LoopHead \/ ForBody \/ Break \/ Collect \/ Cover

Spec == Init /\ [][Next]_vars

-----------------------------------------------------------------------------
(* try_merge on its own: every pair of implicants of width N *)

Implicants ==
    [values : [Variables -> Output], constituents : SUBSET (0 .. MaxConstituent)]

MergeInit ==
    /\ outputs = [idx \in Indices |-> "Zero"]
    /\ pc = "try_merge"
    /\ IdleMinimize
    /\ self \in Implicants
    /\ other \in Implicants
    /\ merge = {}
    /\ query = {}

TryMerge ==
    /\ pc = "try_merge"
    /\ merge' = try_merge(self, other)
    /\ pc' = "merged"
    /\ UNCHANGED <<outputs, implicants, merged, next_implicants, first_idx,
                   prime_implicants, generation, result, self, other, query>>

MergeSpec == MergeInit /\ [][TryMerge]_vars

-----------------------------------------------------------------------------
(* is_minterm on its own: a table queried at any index, in range or not *)

IsMinterm(idx) ==
    /\ pc = "start"
    /\ query' = {[idx |-> idx, outcome |-> is_minterm(outputs, idx)]}
    /\ UNCHANGED <<outputs, pc, implicants, merged, next_implicants,
                   first_idx, prime_implicants, generation, result,
                   self, other, merge>>

QueryNext == \E idx \in 0 .. (ENTRIES - 1 + OutOfRange) : IsMinterm(idx)

QuerySpec == Init /\ [][QueryNext]_vars

-----------------------------------------------------------------------------
(* Properties *)

Range(s) == {s[i] : i \in 1 .. Len(s)}

covered(list) == UNION {x.constituents : x \in Range(list)}

dont_care_count(x) ==
    Cardinality({var \in Variables : x.values[var] = "DontCare"})

\* The index idx, read as an assignment of the N variables, is consistent
\* with the value vector of x.
matches(x, idx) ==
    \A var \in Variables :
        \/ x.values[var] = "DontCare"
        \/ x.values[var] = from_table_idx(idx, FALSE).values[var]

mergeable(x, y) == try_merge(x, y) # {}

\* C1: minimize returns for every table (no unwrap or remove panics), and
\* the constituents of the implicants it returns, intersected with the
\* minterms of the table, are exactly the minterms of the table.
C1_Covering ==
    /\ pc # "panic"
    /\ pc = "done" =>
          covered(result) \cap minterms(outputs) = minterms(outputs)

C1_Witness ==
    /\ pc = "done"
    /\ Len(result) >= 2
    /\ \E i \in 1 .. Len(result) : result[i].constituents # minterms(outputs)

\* C2: minimize returns implicants of prime_implicants, and no subset of
\* prime_implicants with fewer elements than the returned list has
\* constituents that contain every minterm.
C2_MinimumCover ==
    pc = "done" =>
        /\ Range(result) \subseteq Range(prime_implicants)
        /\ Cardinality(Range(result)) = Len(result)
        /\ \A S \in SUBSET Range(prime_implicants) :
              minterms(outputs) \subseteq UNION {x.constituents : x \in S}
                  => Cardinality(S) >= Len(result)

C2_Witness ==
    /\ pc = "done"
    /\ Len(result) >= 2
    /\ Len(result) < Len(prime_implicants)
    /\ \A x \in Range(prime_implicants) : x.constituents # {}

\* C3: an implicant of the generation being scanned, once its turn as
\* first has passed, is in the result iff it merges with no other
\* implicant of its generation.
C3_EmittedIffUnmergeable ==
    pc \in {"for", "cover", "done"} =>
        \A i \in 1 .. first_idx :
            (implicants[i] \in Range(prime_implicants))
                <=> (\A j \in 1 .. Len(implicants) :
                        j # i => ~mergeable(implicants[i], implicants[j]))

C3_Witness ==
    /\ pc = "for"
    /\ first_idx = Len(implicants)
    /\ generation >= 1
    /\ \E i \in 1 .. Len(implicants) :
           implicants[i] \in Range(prime_implicants)
    /\ \E i \in 1 .. Len(implicants) :
           implicants[i] \notin Range(prime_implicants)

\* C4: try_merge succeeds iff the value vectors differ in exactly one
\* coordinate and that coordinate is a Zero/One pair; the result has
\* DontCare there, the inputs' value elsewhere, and the union of the
\* constituents.
C4_TryMerge ==
    pc = "merged" =>
        LET D == {var \in Variables : self.values[var] # other.values[var]}
        IN  /\ (merge # {}) <=>
                  /\ Cardinality(D) = 1
                  /\ \A var \in D :
                        {self.values[var], other.values[var]} = {"Zero", "One"}
            /\ Cardinality(merge) <= 1
            /\ \A m \in merge :
                  /\ \A var \in D : m.values[var] = "DontCare"
                  /\ \A var \in Variables \ D :
                        m.values[var] = self.values[var]
                            /\ m.values[var] = other.values[var]
                  /\ m.constituents = self.constituents \cup other.constituents

C4_Witness ==
    /\ pc = "merged"
    /\ merge # {}
    /\ self.constituents # other.constituents
    /\ \E var \in Variables : self.values[var] = "DontCare"

\* The merge results of the current generation whose value vector is v.
merges_with_values(v) ==
    UNION { {m \in try_merge(implicants[i], implicants[j]) : m.values = v}
              : i \in 1 .. Len(implicants), j \in 1 .. Len(implicants) }

\* C5: when a generation has been scanned, next_implicants holds one
\* implicant per value vector that a merge produced, and its constituents
\* are the union of the constituents of all the merge results with that
\* value vector.
C5_DuplicatesKeepConstituents ==
    (pc = "for" /\ first_idx = Len(implicants)) =>
        /\ \A i \in 1 .. Len(implicants), j \in 1 .. Len(implicants) :
              \A m \in try_merge(implicants[i], implicants[j]) :
                  \E e \in next_implicants : e.values = m.values
        /\ \A e \in next_implicants :
              e.constituents =
                  UNION {m.constituents : m \in merges_with_values(e.values)}
        /\ \A e \in next_implicants, f \in next_implicants :
              e.values = f.values => e = f

C5_Witness ==
    /\ pc = "for"
    /\ first_idx = Len(implicants)
    /\ \E e \in next_implicants :
          /\ e.constituents # {}
          /\ \E i, j, k, l \in 1 .. Len(implicants) :
                /\ i < j /\ k < l /\ i < k
                /\ \E m \in try_merge(implicants[i], implicants[j]) :
                      m.values = e.values
                /\ \E m \in try_merge(implicants[k], implicants[l]) :
                      m.values = e.values

\* C6: for a table with no Zero output and at least one One output,
\* minimize returns exactly one implicant, DontCare in every coordinate.
C6_AllDontCareImplicant ==
    (/\ pc = "done"
     /\ \A idx \in Indices : outputs[idx] # "Zero"
     /\ \E idx \in Indices : outputs[idx] = "One") =>
        /\ Len(result) = 1
        /\ \A var \in Variables : result[1].values[var] = "DontCare"

C6_Witness ==
    /\ pc = "done"
    /\ outputs[0] = "One"
    /\ \A idx \in Indices \ {0} : outputs[idx] = "DontCare"
    /\ Len(result) = 1

\* C7: for a table with no One output, minimize returns the empty list.
C7_EmptyUniverse ==
    (pc = "done" /\ minterms(outputs) = {}) => result = <<>>

C7_Witness ==
    /\ pc = "done"
    /\ minterms(outputs) = {}
    /\ Len(prime_implicants) >= 1
    /\ result = <<>>

\* C8: is_minterm with an index outside 0 .. 2^N - 1 hands an error to the
\* caller and does not panic (the outcomes of is_minterm are "true",
\* "false" and "panic").
C8_OutOfRangeIsError ==
    \A q \in query : q.idx \notin Indices => q.outcome = "error"

\* A generation has at most 3^N implicants (one per value vector); with
\* LoopHead and Collect it takes at most 3^N + 2 steps.
StepsPerGeneration == 3 ^ N + 3

\* The number of steps minimize may still take, at most.
Variant ==
    CASE pc = "start" -> (N + 2) * StepsPerGeneration
      [] pc = "loop"  -> (N - generation) * StepsPerGeneration + 3 ^ N + 3
      [] pc = "for"   -> (N - generation) * StepsPerGeneration
                            + (Len(implicants) - first_idx) + 2
      [] pc = "cover" -> 1
      [] OTHER        -> 0

\* Generation g holds implicants with exactly g DontCare coordinates, there
\* are at most N + 1 generations (0 .. N), and the loop is left only after
\* a generation in which no two implicants merge.
GenerationInv ==
    /\ generation <= N
    /\ Variant >= 0
    /\ pc # "start" =>
          \A x \in Range(implicants) : dont_care_count(x) = generation
    /\ pc \in {"cover", "done"} =>
          \A x \in Range(implicants), y \in Range(implicants) :
              ~mergeable(x, y)

\* C9: the loop of prime_implicants terminates (every step lowers Variant,
\* which never goes below 0), at the first generation without a successful
\* merge, after at most N + 1 generations, generation g holding only
\* implicants with exactly g DontCare coordinates.
C9_LoopTerminates == []GenerationInv /\ [][Variant' < Variant]_vars

C9_Witness ==
    /\ pc = "cover"
    /\ generation = N
    /\ Len(prime_implicants) = 1

\* C10: no implicant of any generation, of the result of prime_implicants
\* or of the list minimize returns matches an index whose output is Zero.
C10_NoForcedZeroMatched ==
    \A x \in Range(implicants) \cup next_implicants
                \cup Range(prime_implicants) \cup Range(result) :
        \A idx \in Indices : matches(x, idx) => outputs[idx] # "Zero"

C10_Witness ==
    /\ pc = "done"
    /\ \E idx \in Indices : outputs[idx] = "Zero"
    /\ \E x \in Range(result) : dont_care_count(x) >= 1

====
